---- MODULE Spec2Model ----
(***************************************************************************)
(* Template rendering and value bridging of configcrunch                   *)
(* (src/src/minijinja.rs, src/src/lib.rs).                                 *)
(*                                                                         *)
(* Text is a sequence of one-character strings.  Values of the template    *)
(* engine, structured values of a document and values of the external      *)
(* (Python) side are records [tag, i, s]: tag names the variant, i is the  *)
(* numeric payload and s the textual payload.                              *)
(***************************************************************************)
EXTENDS Integers, Sequences, FiniteSets, TLC

VARIABLES
    bound_helpers,  \* YamlConfigDocument.bound_helpers, per document
    collected,      \* per document: times collect_bound_variable_helpers ran
    renderer,       \* the TemplateRenderer (env, document, globals)
    last,           \* the last operation: its inputs, its result, its event log
    faultSeen,      \* a helper has faulted in an earlier operation
    call            \* input and output of the last pure conversion

vars == <<bound_helpers, collected, renderer, last, faultSeen, call>>

----------------------------------------------------------------------------
(* Bounds *)

MaxLen == 2       \* segments in an input text
MaxCollect == 2   \* collections counted in one behaviour
MaxInt == 60      \* magnitude of the integers given to the str filter
MaxArgs == 2      \* arguments of a marshalled helper call
MaxAdd == 2       \* callables in one add_helpers call

----------------------------------------------------------------------------
(* Text *)

Digits == <<"0", "1", "2", "3", "4", "5", "6", "7", "8", "9">>

FORCE_STRING ==
    <<"_", "_", "f", "o", "r", "c", "e", "s", "t", "r", "i", "n", "g", "_", "_">>

RECURSIVE NatToStr(_)
NatToStr(n) ==
    IF n < 10 THEN <<Digits[n + 1]>>
    ELSE NatToStr(n \div 10) \o <<Digits[(n % 10) + 1]>>

\* Display of an integer Value: decimal text, '-' before a negative number
IntToStr(n) == IF n < 0 THEN <<"-">> \o NatToStr(0 - n) ELSE NatToStr(n)

Contains(text, ch) == \E k \in 1..Len(text) : text[k] = ch

----------------------------------------------------------------------------
(* Values *)

Val(t, n, txt) == [tag |-> t, i |-> n, s |-> txt]

\* minijinja::value::Value, by the Primitive it reports (None for an object)
VUndefined == Val("Undefined", 0, <<>>)
VNone == Val("None", 0, <<>>)
VBool(b) == Val("Bool", IF b THEN 1 ELSE 0, <<>>)
VU64(n) == Val("U64", n, <<>>)
VU128(n) == Val("U128", n, <<>>)
VI64(n) == Val("I64", n, <<>>)
VI128(n) == Val("I128", n, <<>>)
VF64(n) == Val("F64", n, <<>>)
VChar(c) == Val("Char", 0, <<c>>)
VStr(txt) == Val("Str", 0, txt)
VBytes(txt) == Val("Bytes", 0, txt)
VSeq == Val("Seq", 0, <<>>)
VMap == Val("Map", 0, <<>>)
VDoc(d) == Val("Doc", 0, <<d>>)

PrimitiveTags ==
    {"Undefined", "None", "Bool", "U64", "U128", "I64", "I128", "F64", "Char",
     "Str", "Bytes"}

\* Value::as_primitive: None for Seq, Map and dynamic objects
AsPrimitive(v) ==
    IF v.tag \in PrimitiveTags THEN [some |-> TRUE, p |-> v]
    ELSE [some |-> FALSE, p |-> VUndefined]

\* values of the external side
PyNone == Val("PyNone", 0, <<>>)
PyBool(n) == Val("PyBool", n, <<>>)
PyInt(n) == Val("PyInt", n, <<>>)
PyFloat(n) == Val("PyFloat", n, <<>>)
PyStr(txt) == Val("PyStr", 0, txt)
PyByteSeq(txt) == Val("PyByteSeq", 0, txt)
PyOther == Val("PyOther", 0, <<>>)

\* WValue::to_object
ToObjectDropBool(v) ==
    LET p == AsPrimitive(v) IN
    IF ~p.some THEN PyNone
    ELSE CASE p.p.tag \in {"Undefined", "None", "Bool"} -> PyNone
           [] p.p.tag \in {"U64", "U128", "I64", "I128"} -> PyInt(p.p.i)
           [] p.p.tag = "F64" -> PyFloat(p.p.i)
           [] p.p.tag \in {"Char", "Str"} -> PyStr(p.p.s)
           [] p.p.tag = "Bytes" -> PyByteSeq(p.p.s)

ToObject(v) ==
    LET p == AsPrimitive(v) IN
    IF ~p.some THEN PyNone
    ELSE CASE p.p.tag \in {"Undefined", "None"} -> PyNone
           [] p.p.tag = "Bool" -> PyBool(p.p.i)
           [] p.p.tag \in {"U64", "U128", "I64", "I128"} -> PyInt(p.p.i)
           [] p.p.tag = "F64" -> PyFloat(p.p.i)
           [] p.p.tag \in {"Char", "Str"} -> PyStr(p.p.s)
           [] p.p.tag = "Bytes" -> PyByteSeq(p.p.s)

\* PyTuple::new(py, args.into_iter().map(WValue))
PyArgs(args) == [k \in 1..Len(args) |-> ToObject(args[k])]

\* structured values (YcdValueType)
YInt(n) == Val("Int", n, <<>>)
YFloat(n) == Val("Float", n, <<>>)
YBool(n) == Val("YBool", n, <<>>)
YString(txt) == Val("YString", 0, txt)
YYcd(d) == Val("Ycd", 0, <<d>>)
YDict == Val("Dict", 0, <<>>)
YList == Val("List", 0, <<>>)

\* impl From<YcdValueType> for Value (and From<&YcdValueType>)
FromYcd(y) ==
    CASE y.tag = "Int" -> VI64(y.i)
      [] y.tag = "Float" -> VF64(y.i)
      [] y.tag = "YBool" -> VBool(y.i = 1)
      [] y.tag = "YString" -> VStr(y.s)
      [] y.tag = "Ycd" -> VDoc(y.s[1])
      [] y.tag = "Dict" -> VMap
      [] y.tag = "List" -> VSeq

\* v.extract::<YcdValueType>(py): the external value as a structured value
Extract(pv) ==
    CASE pv.tag = "PyInt" -> [ok |-> TRUE, y |-> YInt(pv.i)]
      [] pv.tag = "PyFloat" -> [ok |-> TRUE, y |-> YFloat(pv.i)]
      [] pv.tag = "PyBool" -> [ok |-> TRUE, y |-> YBool(pv.i)]
      [] pv.tag = "PyStr" -> [ok |-> TRUE, y |-> YString(pv.s)]
      [] OTHER -> [ok |-> FALSE, y |-> YInt(0)]

----------------------------------------------------------------------------
(* Documents and external callables the operations are run against *)

Docs == {"root", "sub", "bare", "broken"}

EmptyMap == [k \in {} |-> ""]

\* YamlConfigDocument.doc: field name -> structured value
DocFields(d) ==
    CASE d = "root" -> ("x" :> YInt(5)) @@ ("n" :> YString(<<"a", "l", "i", "c", "e">>))
                       @@ ("s" :> YYcd("sub")) @@ ("b" :> YYcd("bare"))
                       @@ ("k" :> YYcd("broken"))
      [] d = "sub" -> ("x" :> YInt(7))
      [] OTHER -> [k \in {} |-> YInt(0)]

\* what the owner of a document enumerates as its bound helpers
OwnerHelpers(d) ==
    CASE d = "root" -> ("m" :> "hOk")
      [] d = "sub" -> ("m" :> "hOk") @@ ("r" :> "hReads") @@ ("e" :> "hFault")
                      @@ ("c" :> "hBad")
      [] OTHER -> EmptyMap

\* the enumeration of this document's helpers faults
CollectFaults(d) == d = "broken"

\* __str__ of this document faults
StrFaults(d) == d = "broken"

HelperIds == {"hOk", "hFault", "hBad", "hReads", "hAnon"}

\* __name__ of a callable ("" when it has none)
DeclaredName(h) ==
    CASE h = "hOk" -> "f"
      [] h = "hFault" -> "e"
      [] h = "hBad" -> "c"
      [] h = "hReads" -> "r"
      [] OTHER -> ""

\* the document a callable reads a field of while it runs ("" for none)
ReadsDoc(h) == IF h = "hReads" THEN "sub" ELSE ""

----------------------------------------------------------------------------
(* Results, errors and the event log of one operation *)

NoErr == [kind |-> "", msg |-> "", about |-> ""]
Ok(v) == [ok |-> TRUE, val |-> v, err |-> NoErr]
Err(kind, msg, about) ==
    [ok |-> FALSE, val |-> VUndefined, err |-> [kind |-> kind, msg |-> msg, about |-> about]]

\* convert_pyerr
ConvertPyErrUnwrap(in_e) == Err("Panic", "called unwrap on an Err value", in_e)

ConvertPyErrSwallow(in_e) == Ok(VUndefined)

ConvertPyErr(in_e) == Err("ImpossibleOperation", "Error in a function", in_e)

Event(ev, who, args, ok, flag, reentry) ==
    [ev |-> ev, who |-> who, args |-> args, ok |-> ok, flag |-> flag, reentry |-> reentry]

Machine(bh, col) ==
    [bh |-> bh, col |-> col, flag |-> [d \in Docs |-> 0], log |-> <<>>]

Logged(m, e) == [m EXCEPT !.log = Append(@, e)]

----------------------------------------------------------------------------
(* The PyCell of a document: 0 unborrowed, n > 0 shared borrows, -1 exclusive *)

\* self.0.borrow(py) as call_method takes it
BorrowedExclusive(f) == 0 - 1

Borrowed(f) == f + 1

Released(f) == IF f > 0 THEN f - 1 ELSE 0

\* a shared borrow is granted unless the cell is exclusively borrowed
CanBorrow(f) == f >= 0

\* bound_helpers.is_empty()
IsEmptyNever(map) == FALSE

IsEmpty(map) == DOMAIN map = {}

----------------------------------------------------------------------------
(* Object for PyYamlConfigDocument and the helper function adapter *)

\* get_attr: a shared borrow for the lookup, None for a missing field
GetAttr(m, d, name) ==
    IF CanBorrow(m.flag[d]) /\ name \in DOMAIN DocFields(d)
    THEN [some |-> TRUE, val |-> FromYcd(DocFields(d)[name]), denied |-> FALSE]
    ELSE [some |-> FALSE, val |-> VUndefined, denied |-> ~CanBorrow(m.flag[d])]

\* pyf.call1(py, pyargs): what the callable does on the external side
PyCall(m, pyf, pyargs) ==
    CASE pyf = "hFault" -> [raised |-> TRUE, val |-> PyNone, reentry |-> "none"]
      [] pyf = "hBad" -> [raised |-> FALSE, val |-> PyOther, reentry |-> "none"]
      [] pyf = "hReads" ->
            LET g == GetAttr(m, ReadsDoc(pyf), "x") IN
            IF g.denied
            THEN [raised |-> TRUE, val |-> PyNone, reentry |-> "denied"]
            ELSE [raised |-> FALSE, val |-> ToObject(g.val), reentry |-> "ok"]
      [] OTHER -> [raised |-> FALSE, val |-> PyInt(Len(pyargs)), reentry |-> "none"]

\* the result of the closure: the extracted value, or the converted error
HelperResult(m, pyf, pyargs, r, x) ==
    [m |-> Logged(m, Event("invoke", pyf, pyargs, ~r.raised /\ x.ok,
                           IF ReadsDoc(pyf) = "" THEN 0 ELSE m.flag[ReadsDoc(pyf)],
                           r.reentry)),
     res |-> IF r.raised THEN ConvertPyErr("raised")
             ELSE IF ~x.ok THEN ConvertPyErr("extract")
             ELSE Ok(FromYcd(x.y))]

HelperReturn(m, pyf, pyargs, r) == HelperResult(m, pyf, pyargs, r, Extract(r.val))

HelperCall(m, pyf, pyargs) == HelperReturn(m, pyf, pyargs, PyCall(m, pyf, pyargs))

\* the closure of create_helper_fn(pyf), applied to args
CallHelperFn(m, pyf, args) == HelperCall(m, pyf, PyArgs(args))

\* YamlConfigDocument::collect_bound_variable_helpers
CollectBoundVariableHelpers(m, d) ==
    LET ok == ~CollectFaults(d) /\ m.flag[d] = 0
        m1 == [m EXCEPT !.col[d] = @ + 1,
                        !.bh[d] = IF ok THEN OwnerHelpers(d) ELSE @]
    IN [m |-> Logged(m1, Event("collect", d, <<>>, ok, m.flag[d], "none")), ok |-> ok]

\* call_method: the borrow is given up for the collection and taken again
Reborrowed(c, d) ==
    IF c.ok THEN [m |-> [c.m EXCEPT !.flag[d] = Borrowed(@)], ok |-> TRUE] ELSE c

LazyCollect(bow, d) ==
    IF IsEmpty(bow.bh[d])
    THEN Reborrowed(CollectBoundVariableHelpers([bow EXCEPT !.flag[d] = Released(@)], d), d)
    ELSE [m |-> bow, ok |-> TRUE]

\* call_method: the end of the closure drops the borrow
EndCall(r, d) == [m |-> [r.m EXCEPT !.flag[d] = Released(@)], res |-> r.res]

\* call_method: bound_helpers.get(name)
Dispatch(c, d, name, args) ==
    IF ~c.ok THEN [m |-> c.m, res |-> ConvertPyErr("collect")]
    ELSE IF name \notin DOMAIN c.m.bh[d]
    THEN EndCall([m |-> Logged(c.m, Event("notfound", name, <<>>, FALSE, c.m.flag[d], "none")),
                  res |-> Err("ImpossibleOperation", "Method not found on object", name)], d)
    ELSE EndCall(CallHelperFn(c.m, c.m.bh[d][name], args), d)

\* call_method
CallMethod(m, d, name, args) ==
    Dispatch(LazyCollect([m EXCEPT !.flag[d] = Borrowed(@)], d), d, name, args)

----------------------------------------------------------------------------
(* Input texts: a sequence of segments, each with the characters it is     *)
(* written with and the node the template engine compiles it to            *)

Seg(kind, a, b) == [kind |-> kind, a |-> a, b |-> b]

Segs ==
    {Seg("lit", "a", ""), Seg("brace", "a", ""), Seg("open", "", ""),
     Seg("call", "f", ""), Seg("str", "x", "")}
    \cup {Seg("attr", a, "") : a \in {"x", "q", "k"}}
    \cup {Seg("method", "s", b) : b \in {"m", "e", "z"}}
    \cup {Seg("method", "k", "m")}

SegText(seg) ==
    CASE seg.kind = "lit" -> <<seg.a>>
      [] seg.kind = "brace" -> <<"{", seg.a>>
      [] seg.kind = "open" -> <<"{", "{">>
      [] seg.kind = "attr" -> <<"{", "{", seg.a, "}", "}">>
      [] seg.kind = "str" -> <<"{", "{", seg.a, "|", "s", "t", "r", "}", "}">>
      [] seg.kind = "call" -> <<"{", "{", seg.a, "(", ")", "}", "}">>
      [] seg.kind = "method" -> <<"{", "{", seg.a, ".", seg.b, "(", ")", "}", "}">>

RECURSIVE TextOf(_)
TextOf(input) ==
    IF input = <<>> THEN <<>> ELSE SegText(Head(input)) \o TextOf(Tail(input))

Inputs == UNION {[1..n -> Segs] : n \in 0..MaxLen}

\* input.contains('{')
HasTemplateStartAlways(input) == TRUE

HasTemplateStart(input) == Contains(TextOf(input), "{")

----------------------------------------------------------------------------
(* The String-Forcing Filter and the text of a value *)

DisplayError ==
    <<"Y", "C", "D", "<", "?", "?", " ", "E", "r", "r", "o", "r", " ", "d", "u", "r",
      "i", "n", "g", " ", "D", "i", "s", "p", "l", "a", "y", " ", "?", "?", ">">>

\* Value::to_string for the values that are no document
ValueToString(v) ==
    CASE v.tag \in {"U64", "U128", "I64", "I128"} -> IntToStr(v.i)
      [] v.tag = "F64" -> IntToStr(v.i) \o <<".", "0">>
      [] v.tag = "Bool" -> IF v.i = 1 THEN <<"t", "r", "u", "e">>
                           ELSE <<"f", "a", "l", "s", "e">>
      [] v.tag = "None" -> <<"n", "o", "n", "e">>
      [] v.tag \in {"Char", "Str", "Bytes"} -> v.s
      [] OTHER -> <<>>

\* str_filter
StrFilterNoPrefix(value) == value

StrFilter(value) == FORCE_STRING \o value

\* impl Display for PyYamlConfigDocument
DisplayDoc(m, d) ==
    [m |-> Logged(m, Event("display", d, <<>>, ~StrFaults(d), m.flag[d], "none")),
     text |-> IF StrFaults(d) THEN DisplayError ELSE <<"Y", "C", "D">>]

\* the text the engine writes for a value
WriteValue(m, v) ==
    IF v.tag = "Doc" THEN DisplayDoc(m, v.s[1])
    ELSE [m |-> m, text |-> ValueToString(v)]

----------------------------------------------------------------------------
(* TemplateRenderer *)

TPL_NAME == "tpl"
STR_FILTER == "str"

NoText == <<>>
Out(m, ok, text, err) == [m |-> m, ok |-> ok, text |-> text, err |-> err]

\* an error the engine raises itself while it evaluates a node
EvalError(m, msg, about) ==
    Out(Logged(m, Event("eval", about, <<>>, FALSE, 0, "none")), FALSE, NoText,
        Err("ImpossibleOperation", msg, about).err)

\* the text of a value is appended to the output
Written(w) == Out(w.m, TRUE, w.text, NoErr)

\* the result of a call: its error, or its value written
WriteResult(r) ==
    IF ~r.res.ok THEN Out(r.m, FALSE, NoText, r.res.err)
    ELSE Written(WriteValue(r.m, r.res.val))

\* one node of the compiled template, evaluated against the document
EvalSeg(m, env, d, seg) ==
    CASE seg.kind \in {"lit", "brace"} -> Out(m, TRUE, SegText(seg), NoErr)
      [] seg.kind = "attr" -> Written(WriteValue(m, GetAttr(m, d, seg.a).val))
      [] seg.kind = "str" ->
            IF STR_FILTER \notin env.filters
            THEN EvalError(m, "no such filter", seg.a)
            ELSE Out(m, TRUE, StrFilter(ValueToString(GetAttr(m, d, seg.a).val)), NoErr)
      [] seg.kind = "call" ->
            IF GetAttr(m, d, seg.a).some
            THEN EvalError(m, "not callable", seg.a)
            ELSE IF seg.a \notin DOMAIN env.functions
            THEN EvalError(m, "unknown function", seg.a)
            ELSE WriteResult(CallHelperFn(m, env.functions[seg.a], <<>>))
      [] seg.kind = "method" ->
            IF GetAttr(m, d, seg.a).val.tag # "Doc"
            THEN EvalError(m, "object has no method", seg.b)
            ELSE WriteResult(CallMethod(m, GetAttr(m, d, seg.a).val.s[1], seg.b, <<>>))
      [] OTHER -> Out(m, FALSE, NoText, Err("SyntaxError", "unexpected end of input", "").err)

\* render_from_value: the nodes in order, stopping at the first error
RECURSIVE EvalFrom(_, _, _, _, _, _)
EvalNext(r, env, d, input, k, acc) ==
    IF ~r.ok THEN Out(r.m, FALSE, NoText, r.err)
    ELSE EvalFrom(r.m, env, d, input, k + 1, acc \o r.text)

EvalFrom(m, env, d, input, k, acc) ==
    IF k > Len(input) THEN Out(m, TRUE, acc, NoErr)
    ELSE EvalNext(EvalSeg(m, env, d, input[k]), env, d, input, k, acc)

\* env.add_template: a syntax error when a tag is left open
Compiles(input) == \A k \in 1..Len(input) : input[k].kind # "open"

RenderResult(status, text, err) == [status |-> status, text |-> text, err |-> err]

NewEnv == [filters |-> {STR_FILTER}, functions |-> EmptyMap, templates |-> {}]

NoRenderer ==
    [live |-> FALSE, document |-> "", env |-> [NewEnv EXCEPT !.filters = {}],
     globals |-> EmptyMap]

\* render: the result of render_from_value; remove_template after a success
RenderEvaluated(r, e) ==
    IF ~e.ok
    THEN [r |-> r, m |-> e.m, res |-> RenderResult("Err", NoText, e.err)]
    ELSE [r |-> [r EXCEPT !.env.templates = @ \ {TPL_NAME}], m |-> e.m,
          res |-> RenderResult("Some", e.text, NoErr)]

\* render: get_template and render_from_value on the added template
RenderAdded(r, m, input) ==
    RenderEvaluated(r, EvalFrom(m, r.env, r.document, input, 1, <<>>))

\* render: add_template
RenderCompiled(r, m, input) ==
    IF ~Compiles(input)
    THEN [r |-> r, m |-> m,
          res |-> RenderResult("Err", NoText,
                               Err("SyntaxError", "unexpected end of input", "").err)]
    ELSE RenderAdded([r EXCEPT !.env.templates = @ \cup {TPL_NAME}], m, input)

\* TemplateRenderer::render; the renderer is consumed by the call, its
\* environment is kept here as it is when the call returns
Render(r, m, helpers, input) ==
    IF ~HasTemplateStart(input)
    THEN [r |-> [r EXCEPT !.live = FALSE], m |-> m,
          res |-> RenderResult("None", NoText, NoErr)]
    ELSE RenderCompiled([r EXCEPT !.live = FALSE, !.env.functions = helpers @@ @],
                        Logged(m, Event("compile", TPL_NAME, <<>>, Compiles(input), 0, "none")),
                        input)

\* TemplateRenderer::add_helpers: globals.extend, which stops at a callable
\* without __name__ (unwrap of the failed getattr)
RECURSIVE ExtendGlobals(_, _)
ExtendGlobals(globals, helpers) ==
    IF helpers = <<>> THEN [globals |-> globals, panicked |-> FALSE]
    ELSE IF DeclaredName(Head(helpers)) = "" THEN [globals |-> globals, panicked |-> TRUE]
    ELSE ExtendGlobals((DeclaredName(Head(helpers)) :> Head(helpers)) @@ globals,
                       Tail(helpers))

----------------------------------------------------------------------------
(* State *)

NoCall == [fn |-> "none", v |-> VUndefined, args |-> <<>>, pyargs |-> <<>>,
           ok |-> TRUE, out |-> <<>>]

Record(op, doc, name, input, helpers, args, wasEmpty, status, text, val, err, log) ==
    [op |-> op, doc |-> doc, name |-> name, input |-> input, helpers |-> helpers,
     args |-> args, wasEmpty |-> wasEmpty, status |-> status, text |-> text,
     val |-> val, err |-> err, log |-> log]

HelperFault(log) ==
    \E k \in 1..Len(log) : log[k].ev = "invoke" /\ ~log[k].ok

\* the collections of a behaviour are counted up to MaxCollect in all
WithinCap(col) == col["root"] + col["sub"] + col["bare"] + col["broken"] <= MaxCollect

Init ==
    /\ bound_helpers = [d \in Docs |-> EmptyMap]
    /\ collected = [d \in Docs |-> 0]
    /\ renderer = NoRenderer
    /\ last = Record("init", "", "", <<>>, EmptyMap, <<>>, FALSE, "Ok", <<>>,
                     VUndefined, NoErr, <<>>)
    /\ faultSeen = FALSE
    /\ call = NoCall

----------------------------------------------------------------------------
(* Operations *)

\* new: the renderer is made when the collection did not fail
Constructed(c, d) ==
    /\ WithinCap(c.m.col)
    /\ bound_helpers' = c.m.bh
    /\ collected' = c.m.col
    /\ renderer' = IF c.ok
                   THEN [live |-> TRUE, document |-> d, env |-> NewEnv, globals |-> EmptyMap]
                   ELSE renderer
    /\ last' = Record("new", d, "", <<>>, EmptyMap, <<>>, DOMAIN bound_helpers[d] = {},
                      IF c.ok THEN "Ok" ELSE "Err", <<>>, VUndefined,
                      IF c.ok THEN NoErr ELSE Err("PyErr", "collection failed", d).err,
                      c.m.log)
    /\ UNCHANGED <<faultSeen, call>>

\* TemplateRenderer::new
New(d) ==
    Constructed(IF IsEmpty(bound_helpers[d])
                THEN CollectBoundVariableHelpers(Machine(bound_helpers, collected), d)
                ELSE [m |-> Machine(bound_helpers, collected), ok |-> TRUE], d)

AddIds == {"hOk", "hBad", "hAnon"}

Extended(x, helpers) ==
    /\ renderer.live
    /\ renderer' = [renderer EXCEPT !.globals = x.globals]
    /\ last' = Record("add_helpers", renderer.document, "", <<>>, EmptyMap, helpers, FALSE,
                      IF x.panicked THEN "Panic" ELSE "Ok", <<>>, VUndefined, NoErr, <<>>)
    /\ UNCHANGED <<bound_helpers, collected, faultSeen, call>>

\* TemplateRenderer::add_helpers
AddHelpers(helpers) == Extended(ExtendGlobals(renderer.globals, helpers), helpers)

HelperMaps == {EmptyMap, "f" :> "hOk", "f" :> "hBad"}

Rendered(x, helpers, input) ==
    /\ renderer.live
    /\ WithinCap(x.m.col)
    /\ renderer' = x.r
    /\ bound_helpers' = x.m.bh
    /\ collected' = x.m.col
    /\ last' = Record("render", renderer.document, "", input, helpers, <<>>, FALSE,
                      x.res.status, x.res.text, VUndefined, x.res.err, x.m.log)
    /\ faultSeen' = (faultSeen \/ HelperFault(x.m.log))
    /\ UNCHANGED call

\* TemplateRenderer::render
RenderOp(helpers, input) ==
    Rendered(Render(renderer, Machine(bound_helpers, collected), helpers, input),
             helpers, input)

MethodNames == {"m", "r", "e", "c", "z"}
MethodArgs == {VI64(1), VMap}
ArgSeqs(S, n) == UNION {[1..k -> S] : k \in 0..n}

Called(x, d, name, args) ==
    /\ WithinCap(x.m.col)
    /\ bound_helpers' = x.m.bh
    /\ collected' = x.m.col
    /\ last' = Record("call_method", d, name, <<>>, EmptyMap, args,
                      DOMAIN bound_helpers[d] = {}, IF x.res.ok THEN "Ok" ELSE "Err", <<>>,
                      x.res.val, x.res.err, x.m.log)
    /\ UNCHANGED <<renderer, faultSeen, call>>

\* Object::call_method on the document, as the engine calls it
CallMethodOp(d, name, args) ==
    Called(CallMethod(Machine(bound_helpers, collected), d, name, args), d, name, args)

\* renderers are made for a document and consumed by one render call
RenderStep == renderer.live /\ \E hm \in HelperMaps, input \in Inputs : RenderOp(hm, input)

Next ==
    \/ \E d \in Docs : New(d)
    \/ RenderStep

Spec == Init /\ [][Next]_vars

AddHelpersStep == renderer.live /\ \E hs \in ArgSeqs(AddIds, MaxAdd) : AddHelpers(hs)

\* a renderer for the root document is given more helpers before it renders
NextGlobals ==
    \/ New("root")
    \/ AddHelpersStep
    \/ RenderStep

SpecGlobals == Init /\ [][NextGlobals]_vars

\* the engine calls methods of documents, renderers are made in between
NextDoc ==
    \/ \E d \in Docs : New(d)
    \/ \E d \in Docs, name \in MethodNames, args \in ArgSeqs(MethodArgs, MaxArgs - 1) :
          CallMethodOp(d, name, args)

SpecDoc == Init /\ [][NextDoc]_vars

----------------------------------------------------------------------------
(* The pure conversions, applied to inputs drawn by the initial state *)

IntValues ==
    {VI64(n) : n \in (0 - MaxInt)..MaxInt} \cup {VU64(n) : n \in 0..MaxInt}

InitFilter ==
    /\ bound_helpers = [d \in Docs |-> EmptyMap]
    /\ collected = [d \in Docs |-> 0]
    /\ renderer = NoRenderer
    /\ last = Record("init", "", "", <<>>, EmptyMap, <<>>, FALSE, "Ok", <<>>,
                     VUndefined, NoErr, <<>>)
    /\ faultSeen = FALSE
    /\ call \in {[NoCall EXCEPT !.fn = "value", !.v = v] : v \in IntValues}

\* the engine turns the filter's argument into a String and calls str_filter
ApplyStrFilter ==
    /\ call.fn = "value"
    /\ call' = [call EXCEPT !.fn = "str_filter", !.out = StrFilter(ValueToString(call.v))]
    /\ UNCHANGED <<bound_helpers, collected, renderer, last, faultSeen>>

SpecFilter == InitFilter /\ [][ApplyStrFilter]_vars

ArgValues ==
    {VUndefined, VNone, VBool(TRUE), VBool(FALSE), VU64(3), VU128(4), VI64(0 - 2),
     VI128(0 - 5), VF64(2), VChar("c"), VStr(<<"h", "i">>), VBytes(<<"b">>), VSeq, VMap,
     VDoc("sub")}

InitMarshal ==
    /\ bound_helpers = [d \in Docs |-> EmptyMap]
    /\ collected = [d \in Docs |-> 0]
    /\ renderer = NoRenderer
    /\ last = Record("init", "", "", <<>>, EmptyMap, <<>>, FALSE, "Ok", <<>>,
                     VUndefined, NoErr, <<>>)
    /\ faultSeen = FALSE
    /\ call \in {[NoCall EXCEPT !.fn = "args", !.args = a] : a \in ArgSeqs(ArgValues, MaxArgs)}

\* the engine calls the function made by create_helper_fn for a callable that
\* answers with the number of arguments it was given
CallHelper ==
    /\ call.fn = "args"
    /\ LET r == CallHelperFn(Machine(bound_helpers, collected), "hOk", call.args) IN
       call' = [call EXCEPT !.fn = "helper", !.pyargs = r.m.log[1].args,
                            !.ok = r.res.ok, !.v = r.res.val]
    /\ UNCHANGED <<bound_helpers, collected, renderer, last, faultSeen>>

SpecMarshal == InitMarshal /\ [][CallHelper]_vars

----------------------------------------------------------------------------
(* Properties *)

Events(log, kinds) == {k \in 1..Len(log) : log[k].ev \in kinds}
Failed(log, kinds) == {k \in Events(log, kinds) : ~log[k].ok}

\* the failures of a render call: compile error, evaluation error, helper
\* failure, helper-collection failure
FailureKinds == {"compile", "eval", "notfound", "invoke", "collect"}

IsRender == last.op = "render"
IsCallMethod == last.op = "call_method"

\* C1: a render call whose input text has no '{' returns "no substitution",
\* registers no helper, compiles no template and evaluates nothing, whatever
\* helpers and document it is given.
C1_FastPath ==
    (IsRender /\ ~Contains(TextOf(last.input), "{")) =>
        /\ last.status = "None"
        /\ last.text = <<>>
        /\ last.log = <<>>
        /\ renderer.env.functions = EmptyMap
        /\ renderer.env.templates = {}

C1_Witness ==
    /\ IsRender
    /\ last.input = <<Seg("lit", "a", ""), Seg("lit", "a", "")>>
    /\ last.helpers # EmptyMap
    /\ last.status = "None"

\* C2: every render call that compiled its input has removed the compiled
\* template from the environment when it returns.
C2_TemplateRemoved ==
    (IsRender /\ Events(last.log, {"compile"}) # {} /\ Failed(last.log, {"compile"}) = {}) =>
        renderer.env.templates = {}

\* C3: the collection of a document's bound helpers is triggered at most once
\* over any sequence of new and call_method operations, also for a document
\* that has no bound helpers.
C3_CollectedOnce == \A d \in Docs : collected[d] <= 1

\* C4: call_method collects first when the cache is empty, and only then; with
\* the collection done, a name absent from the cache gives the error "Method
\* not found" and no helper is invoked, a name present has exactly the helper
\* bound to it invoked, once, with the arguments in their order.
C4_CallMethod ==
    IsCallMethod =>
        LET log == last.log
            invoked == Events(log, {"invoke"})
            cache == bound_helpers[last.doc]
        IN  /\ last.wasEmpty =>
                  /\ Len(log) >= 1
                  /\ log[1].ev = "collect" /\ log[1].who = last.doc
                  /\ Cardinality(Events(log, {"collect"})) = 1
            /\ ~last.wasEmpty => Events(log, {"collect"}) = {}
            /\ Failed(log, {"collect"}) = {} =>
                  IF last.name \notin DOMAIN cache
                  THEN /\ last.status = "Err"
                       /\ last.err.msg = "Method not found on object"
                       /\ last.err.about = last.name
                       /\ invoked = {}
                  ELSE /\ Cardinality(invoked) = 1
                       /\ \A k \in invoked :
                            /\ log[k].who = cache[last.name]
                            /\ log[k].who = OwnerHelpers(last.doc)[last.name]
                            /\ Len(log[k].args) = Len(last.args)
                            /\ \A j \in 1..Len(last.args) :
                                 log[k].args[j] =
                                    IF last.args[j].tag = "I64" THEN PyInt(last.args[j].i)
                                    ELSE PyNone

C4_Witness ==
    /\ IsCallMethod
    /\ last.wasEmpty
    /\ last.doc = "sub" /\ last.name = "m"
    /\ Len(last.args) >= 1
    /\ last.status = "Ok"
    /\ Events(last.log, {"invoke"}) # {}

\* C5: a helper that faults, or whose result is no structured value, makes
\* the call return the error "Error in a function" with a diagnostic, and a
\* later render call of an unrelated field returns that field's text.
C5_HelperFailureIsolated ==
    /\ (Failed(last.log, {"invoke"}) # {}) =>
          /\ last.status = "Err"
          /\ last.err.kind = "ImpossibleOperation"
          /\ last.err.msg = "Error in a function"
          /\ last.err.about \in {"raised", "extract"}
    /\ (faultSeen /\ IsRender /\ last.input = <<Seg("attr", "x", "")>>) =>
          /\ last.status = "Some"
          /\ last.text = CASE last.doc = "root" -> <<"5">>
                             [] last.doc = "sub" -> <<"7">>
                             [] OTHER -> <<>>

C5_Witness ==
    /\ faultSeen
    /\ IsRender
    /\ last.input = <<Seg("attr", "x", "")>>
    /\ last.doc = "root"
    /\ last.status = "Some"
    /\ Failed(last.log, {"invoke"}) = {}

C7_AddedHelperCallable ==
    (/\ IsRender
     /\ last.input = <<Seg("call", "f", "")>>
     /\ "f" \in DOMAIN renderer.globals) =>
        \E k \in Events(last.log, {"invoke"}) : last.log[k].who = renderer.globals["f"]

\* C8: a helper invoked through call_method that reads a field of the same
\* document is granted the read while call_method holds its borrow, and the
\* call returns the helper's result.
C8_ReentrantRead ==
    IsCallMethod =>
        \A k \in Events(last.log, {"invoke"}) :
            last.log[k].reentry # "none" =>
                /\ last.log[k].reentry = "ok"
                /\ last.log[k].flag >= 1
                /\ last.log[k].ok
                /\ last.status = "Ok"
                /\ last.val = VI64(7)

C8_Witness ==
    /\ IsCallMethod
    /\ last.doc = "sub" /\ last.name = "r"
    /\ last.status = "Ok"
    /\ \E k \in Events(last.log, {"invoke"}) :
          last.log[k].reentry = "ok" /\ last.log[k].flag >= 1

DigitOf(c) == CHOOSE k \in 0..9 : Digits[k + 1] = c
IsDigit(c) == \E k \in 0..9 : Digits[k + 1] = c

RECURSIVE DecimalValue(_)
DecimalValue(txt) ==
    IF txt = <<>> THEN 0
    ELSE 10 * DecimalValue(SubSeq(txt, 1, Len(txt) - 1)) + DigitOf(txt[Len(txt)])

\* txt is the decimal text of n >= 0: digits only, no leading zero
IsDecimalOfNat(txt, n) ==
    /\ Len(txt) >= 1
    /\ \A k \in 1..Len(txt) : IsDigit(txt[k])
    /\ (Len(txt) > 1 => txt[1] # "0")
    /\ DecimalValue(txt) = n

IsDecimalOf(txt, n) ==
    IF n < 0
    THEN Len(txt) >= 2 /\ txt[1] = "-" /\ IsDecimalOfNat(SubSeq(txt, 2, Len(txt)), 0 - n)
    ELSE IsDecimalOfNat(txt, n)

\* C9: the str filter applied to an integer n returns "__forcestring__"
\* followed by the decimal text of n and nothing else.
C9_ForceString ==
    call.fn = "str_filter" =>
        /\ Len(call.out) > Len(FORCE_STRING)
        /\ SubSeq(call.out, 1, 15) =
              <<"_", "_", "f", "o", "r", "c", "e", "s", "t", "r", "i", "n", "g", "_", "_">>
        /\ IsDecimalOf(SubSeq(call.out, 16, Len(call.out)), call.v.i)

C9_Witness ==
    /\ call.fn = "str_filter"
    /\ call.v = VI64(0 - 42)
    /\ Len(call.out) = 18

\* C10: the helper is called with as many arguments as it was given, in their
\* order: a bool, integer, float, char, string or bytes argument as the
\* external value of its kind and content, any other argument as null; the
\* call does not fail.
C10_Marshalled ==
    call.fn = "helper" =>
        /\ call.ok
        /\ call.v = VI64(Len(call.args))
        /\ Len(call.pyargs) = Len(call.args)
        /\ \A k \in 1..Len(call.args) :
              LET a == call.args[k]
                  o == call.pyargs[k]
              IN  /\ a.tag \in {"Undefined", "None", "Seq", "Map", "Doc"} => o = PyNone
                  /\ a.tag = "Bool" => (o.tag = "PyBool" /\ o.i = a.i)
                  /\ a.tag \in {"U64", "U128", "I64", "I128"} => (o.tag = "PyInt" /\ o.i = a.i)
                  /\ a.tag = "F64" => (o.tag = "PyFloat" /\ o.i = a.i)
                  /\ a.tag \in {"Char", "Str"} => (o.tag = "PyStr" /\ o.s = a.s)
                  /\ a.tag = "Bytes" => (o.tag # "PyNone" /\ o.s = a.s)

C10_Witness ==
    /\ call.fn = "helper"
    /\ call.args = <<VMap, VBool(TRUE)>>
    /\ call.pyargs = <<PyNone, PyBool(1)>>

====
